---- MODULE Spec2Model ----
(***************************************************************************)
(* Model of lib/RedisRemoteOtaiInterface.cpp: the lifecycle state machine, *)
(* the command/response protocol of the object API over the transport     *)
(* client, and the notification dispatch on the transport's own thread.    *)
(*                                                                         *)
(* Foreground calls are run by the callers in Callers.  A call is a short  *)
(* sequence of steps: everything up to and including the enqueue of its    *)
(* command is one step (it touches no state another thread writes in       *)
(* between), the blocking wait with the code that follows it is a second   *)
(* step, and Return hands the result to the caller.  initialize and        *)
(* uninitialize are split at every assignment to a member, because the     *)
(* notification thread reads those members.                                *)
(***************************************************************************)
EXTENDS Integers, Sequences, FiniteSets, TLC

(* ------------------------------ bounds -------------------------------- *)

NumCallers == 2
MaxQueue == 3
MaxCount == 1
MaxVals == 1
MaxPtr == 1

Callers == 1..NumCallers
\* the owner tag of a command whose call has returned
Stale == NumCallers + 1

(* --------------------------- program constants ------------------------ *)

\* attribute ids, abstracted to small numbers that keep their order:
\* ids below OTAI_LINECARD_ATTR_CUSTOM_RANGE_START are ordinary attributes,
\* AttrNotify is one of the notification-pointer attributes of the linecard.
AttrPlain == 0
AttrNotify == 1
OTAI_LINECARD_ATTR_CUSTOM_RANGE_START == 2
OTAI_REDIS_LINECARD_ATTR_FLUSH == 2
AttrUnknownExt == 3
AttrIds == {AttrPlain, AttrNotify, OTAI_REDIS_LINECARD_ATTR_FLUSH, AttrUnknownExt}

OTAI_NULL_OBJECT_ID == 0
LinecardVid == 1
OtherVid == 2

OTAI_OBJECT_TYPE_LINECARD == "LINECARD"
OTAI_OBJECT_TYPE_OTHER == "OTHER"
ObjectTypes == {OTAI_OBJECT_TYPE_LINECARD, OTAI_OBJECT_TYPE_OTHER}

OTAI_STATUS_SUCCESS == "Success"
OTAI_STATUS_FAILURE == "Failure"
OTAI_STATUS_BUFFER_OVERFLOW == "BufferOverflow"
OTAI_STATUS_INSUFFICIENT_RESOURCES == "InsufficientResources"
OTAI_STATUS_NOT_IMPLEMENTED == "NotImplemented"
\* SWSS_LOG_THROW: the call ends with an exception instead of a status
Fatal == "Fatal"
NoStatus == "none"

\* statuses the backend puts into a response
BackendStatuses == {OTAI_STATUS_SUCCESS, OTAI_STATUS_FAILURE, OTAI_STATUS_BUFFER_OVERFLOW}

ObjOps == {"create", "remove", "set", "get", "getStats", "clearStats"}
Ops == ObjOps \cup {"initialize", "uninitialize", "getStatsExt", "none"}

Ptrs == 0..MaxPtr
NullPtr == 0

NoLinecard == [present |-> FALSE, id |-> OTAI_NULL_OBJECT_ID, cb |-> NullPtr]

\* positions of the notification thread inside syncProcessNotification
SyncPcs == {"processMetadata", "linecardIdQuery", "lookup"}

VARIABLES
    discipline,                \* how the callers serialize: "mutex", "singleWriter", "none"
    m_initialized,
    m_communicationChannel,    \* "null" or "open"
    m_linecard,
    m_virtualObjectIdManager,  \* "null" or "ready"
    m_meta,                    \* weak reference: "expired" or "live"
    pc, call, ret, gh,         \* per caller: position, arguments, result, bookkeeping
    cmdQ, respQ,               \* the transport: commands to the backend, responses from it
    lastEvent,                 \* last lifecycle / root-entity event that took effect
    rootRemoved,               \* a root remove succeeded and no root create since
    prevFatal,                 \* the last call that returned ended in the fatal error
    nPc, nMsg, nSn, nLog       \* notification thread: position, message, table copy, log

vars == <<discipline, m_initialized, m_communicationChannel, m_linecard,
          m_virtualObjectIdManager, m_meta, pc, call, ret, gh, cmdQ, respQ,
          lastEvent, rootRemoved, prevFatal, nPc, nMsg, nSn, nLog>>

facadeVars == <<m_initialized, m_communicationChannel, m_linecard, m_virtualObjectIdManager>>
notifVars == <<nPc, nMsg, nSn, nLog>>
queueVars == <<cmdQ, respQ>>

NoCall == [op |-> "none", objectType |-> OTAI_OBJECT_TYPE_OTHER, attrId |-> AttrPlain,
           ptr |-> NullPtr, count |-> 0, objectId |-> OTAI_NULL_OBJECT_ID]

\* per call: commands enqueued, waits done, flushes done, whose response the
\* wait took, the status and (where the call reads it) the payload size of
\* that response, what went into the caller's buffer, the lifecycle state
\* at entry
NoGh == [enq |-> 0, waits |-> 0, flushes |-> 0, got |-> "none", rstatus |-> NoStatus,
         rnvals |-> 0, copied |-> "none", pre |-> "none"]

\* the message in dispatch: whether the factory knows its name, and whether
\* it arrived after a successful root remove with no successful root create since
NoMsg == [known |-> FALSE, afterRemove |-> FALSE]
NoLog == [validated |-> FALSE, looked |-> FALSE, called |-> 0, outcome |-> "none"]

Alive == (\A c \in Callers : pc[c] # "crashed") /\ nPc # "crashed"

\* A caller may enter a call when it is idle and the callers' discipline
\* lets it: under "mutex" and "singleWriter" no other call is in progress,
\* under "mutex" the notification thread is not inside the callback either.
CanEnter(c) ==
    /\ Alive
    /\ pc[c] = "idle"
    /\ discipline # "none" => \A d \in Callers \ {c} : pc[d] = "idle"
    /\ discipline = "mutex" => nPc \notin SyncPcs

Init ==
    /\ discipline \in {"mutex", "singleWriter"}
    /\ m_initialized = TRUE
    /\ m_communicationChannel = "open"
    /\ m_linecard = NoLinecard
    /\ m_virtualObjectIdManager = "ready"
    /\ m_meta = "expired"
    /\ pc = [c \in Callers |-> "idle"]
    /\ call = [c \in Callers |-> NoCall]
    /\ ret = [c \in Callers |-> NoStatus]
    /\ gh = [c \in Callers |-> NoGh]
    /\ cmdQ = <<>>
    /\ respQ = <<>>
    /\ lastEvent = "initialize"
    /\ rootRemoved = FALSE
    /\ prevFatal = FALSE
    /\ nPc = "idle"
    /\ nMsg = NoMsg
    /\ nSn = NullPtr
    /\ nLog = NoLog

(* ------------------------- lifecycle (lines 51-106) -------------------- *)

\* a call ends with status s (or with Fatal, an exception)
Finish(c, s) ==
    /\ pc' = [pc EXCEPT ![c] = "done"]
    /\ ret' = [ret EXCEPT ![c] = s]

Enter(c, op, objectType, attrId, ptr, count, objectId) ==
    call' = [call EXCEPT ![c] = [op |-> op, objectType |-> objectType, attrId |-> attrId,
                                 ptr |-> ptr, count |-> count, objectId |-> objectId]]

\* the lifecycle state a call finds when it enters
Pre == IF m_initialized THEN "Initialized" ELSE "Uninitialized"

\* a slip that drops the guard of initialize
initialize_noguard(c) ==
    /\ CanEnter(c)
    /\ Enter(c, "initialize", OTAI_OBJECT_TYPE_OTHER, AttrPlain, NullPtr, 0, OTAI_NULL_OBJECT_ID)
    /\ gh' = [gh EXCEPT ![c].pre = Pre]
    /\ m_communicationChannel' = "open"
    /\ pc' = [pc EXCEPT ![c] = "init_clear"]
    /\ UNCHANGED <<discipline, m_initialized, m_linecard, m_virtualObjectIdManager, m_meta,
                   ret, cmdQ, respQ, lastEvent, rootRemoved, prevFatal, nPc, nMsg, nSn, nLog>>

\* initialize, lines 57-71: the guard; then the transport client is built,
\* bound to handleNotification, and its notification thread starts
initialize(c) ==
    /\ CanEnter(c)
    /\ Enter(c, "initialize", OTAI_OBJECT_TYPE_OTHER, AttrPlain, NullPtr, 0, OTAI_NULL_OBJECT_ID)
    /\ gh' = [gh EXCEPT ![c].pre = Pre]
    /\ IF m_initialized
       THEN /\ Finish(c, OTAI_STATUS_FAILURE)
            /\ UNCHANGED m_communicationChannel
       ELSE /\ m_communicationChannel' = "open"
            /\ pc' = [pc EXCEPT ![c] = "init_clear"]
            /\ UNCHANGED ret
    /\ UNCHANGED <<discipline, m_initialized, m_linecard, m_virtualObjectIdManager, m_meta,
                   cmdQ, respQ, lastEvent, rootRemoved, prevFatal, nPc, nMsg, nSn, nLog>>

\* clear_local_state, line 644: m_linecard = nullptr
clear_local_state_linecard(c, from, to, ev) ==
    /\ Alive
    /\ pc[c] = from
    /\ m_linecard' = NoLinecard
    /\ lastEvent' = ev
    /\ pc' = [pc EXCEPT ![c] = to]
    /\ UNCHANGED <<discipline, m_initialized, m_communicationChannel, m_virtualObjectIdManager,
                   m_meta, call, ret, gh, cmdQ, respQ, rootRemoved, prevFatal,
                   nPc, nMsg, nSn, nLog>>

\* clear_local_state, lines 646-650: a fresh identifier virtualizer
clear_local_state_vid(c, from, to) ==
    /\ Alive
    /\ pc[c] = from
    /\ m_virtualObjectIdManager' = "ready"
    /\ pc' = [pc EXCEPT ![c] = to]
    /\ UNCHANGED <<discipline, m_initialized, m_communicationChannel, m_linecard,
                   m_meta, call, ret, gh, cmdQ, respQ, lastEvent, rootRemoved, prevFatal, nPc, nMsg, nSn, nLog>>

\* initialize, line 73
initialize_clear_linecard(c) ==
    clear_local_state_linecard(c, "init_clear", "init_vid", "initialize")

initialize_clear_vid(c) == clear_local_state_vid(c, "init_vid", "init_flag")

\* initialize, lines 77-79
initialize_end(c) ==
    /\ Alive
    /\ pc[c] = "init_flag"
    /\ m_initialized' = TRUE
    /\ Finish(c, OTAI_STATUS_SUCCESS)
    /\ UNCHANGED <<discipline, m_communicationChannel, m_linecard, m_virtualObjectIdManager,
                   m_meta, call, gh, cmdQ, respQ, lastEvent, rootRemoved, prevFatal, nPc, nMsg, nSn, nLog>>

\* uninitialize, lines 88-93: the guard
uninitialize(c) ==
    /\ CanEnter(c)
    /\ Enter(c, "uninitialize", OTAI_OBJECT_TYPE_OTHER, AttrPlain, NullPtr, 0, OTAI_NULL_OBJECT_ID)
    /\ gh' = [gh EXCEPT ![c].pre = Pre]
    /\ IF ~m_initialized
       THEN Finish(c, OTAI_STATUS_FAILURE)
       ELSE /\ pc' = [pc EXCEPT ![c] = "un_stop"]
            /\ UNCHANGED ret
    /\ UNCHANGED <<discipline, m_initialized, m_communicationChannel, m_linecard,
                   m_virtualObjectIdManager, m_meta,
                   cmdQ, respQ, lastEvent, rootRemoved, prevFatal, nPc, nMsg, nSn, nLog>>

\* a slip that clears the local state with the transport client still running
uninitialize_stop_skipped(c) ==
    /\ Alive
    /\ pc[c] = "un_stop"
    /\ pc' = [pc EXCEPT ![c] = "un_clear"]
    /\ UNCHANGED <<discipline, m_initialized, m_communicationChannel, m_linecard,
                   m_virtualObjectIdManager, m_meta, call, ret, gh,
                   cmdQ, respQ, lastEvent, rootRemoved, prevFatal, nPc, nMsg, nSn, nLog>>

\* the transport client's destructor joins its notification thread: it
\* returns once the thread is out of handleNotification
notificationThreadJoined == nPc = "idle"

\* uninitialize, lines 95-97: m_communicationChannel = nullptr "will stop
\* thread"; dropping the last reference destroys the transport client
uninitialize_stop(c) ==
    /\ Alive
    /\ pc[c] = "un_stop"
    /\ notificationThreadJoined
    /\ m_communicationChannel' = "null"
    /\ pc' = [pc EXCEPT ![c] = "un_clear"]
    /\ UNCHANGED <<discipline, m_initialized, m_linecard,
                   m_virtualObjectIdManager, m_meta, call, ret, gh,
                   cmdQ, respQ, lastEvent, rootRemoved, prevFatal, nPc, nMsg, nSn, nLog>>

\* uninitialize, line 99
uninitialize_clear_linecard(c) ==
    clear_local_state_linecard(c, "un_clear", "un_vid", "uninitialize")

uninitialize_clear_vid(c) == clear_local_state_vid(c, "un_vid", "un_flag")

\* uninitialize, lines 101-105
uninitialize_end(c) ==
    /\ Alive
    /\ pc[c] = "un_flag"
    /\ m_initialized' = FALSE
    /\ Finish(c, OTAI_STATUS_SUCCESS)
    /\ UNCHANGED <<discipline, m_communicationChannel, m_linecard, m_virtualObjectIdManager,
                   m_meta, call, gh, cmdQ, respQ, lastEvent, rootRemoved, prevFatal, nPc, nMsg, nSn, nLog>>

\* the caller takes the result; the call's locals are gone
Return(c) ==
    /\ Alive
    /\ pc[c] = "done"
    /\ pc' = [pc EXCEPT ![c] = "idle"]
    /\ call' = [call EXCEPT ![c] = NoCall]
    /\ ret' = [ret EXCEPT ![c] = NoStatus]
    /\ gh' = [gh EXCEPT ![c] = NoGh]
    /\ cmdQ' = [i \in DOMAIN cmdQ |->
                  IF cmdQ[i].owner = c THEN [cmdQ[i] EXCEPT !.owner = Stale] ELSE cmdQ[i]]
    /\ respQ' = [i \in DOMAIN respQ |->
                  IF respQ[i].for = c THEN [respQ[i] EXCEPT !.for = Stale] ELSE respQ[i]]
    /\ prevFatal' = (ret[c] = Fatal)
    /\ UNCHANGED <<discipline, m_initialized, m_communicationChannel, m_linecard,
                   m_virtualObjectIdManager, m_meta,
                   lastEvent, rootRemoved, nPc, nMsg, nSn, nLog>>

(* ---------------------- the transport client's queues ------------------ *)

\* a slip that sends the command twice
Enqueue_twice(c, tag, fields, sentinel) ==
    /\ Len(cmdQ) + Len(respQ) + 1 < MaxQueue
    /\ cmdQ' = cmdQ \o << [tag |-> tag, owner |-> c, fields |-> fields, sentinel |-> sentinel],
                          [tag |-> tag, owner |-> c, fields |-> fields, sentinel |-> sentinel] >>
    /\ gh' = [gh EXCEPT ![c].enq = @ + 2]
    /\ pc' = [pc EXCEPT ![c] = "wait"]
    /\ UNCHANGED <<respQ, ret>>

\* m_communicationChannel->set / ->del (unbuffered): one command to the backend
Enqueue(c, tag, fields, sentinel) ==
    /\ Len(cmdQ) + Len(respQ) < MaxQueue
    /\ cmdQ' = Append(cmdQ, [tag |-> tag, owner |-> c, fields |-> fields,
                             sentinel |-> sentinel])
    /\ gh' = [gh EXCEPT ![c].enq = @ + 1]
    /\ pc' = [pc EXCEPT ![c] = "wait"]
    /\ UNCHANGED <<respQ, ret>>

\* a member function is called through a null m_communicationChannel, or
\* through a null m_virtualObjectIdManager: the process dies
Crash(c) ==
    /\ pc' = [pc EXCEPT ![c] = "crashed"]
    /\ UNCHANGED <<cmdQ, respQ, gh, ret>>

\* a facade that would pick its own response out of the shared path
Consume_correlated(c, copied, nvals) ==
    LET own == {i \in DOMAIN respQ : respQ[i].for = c}
        k == IF own = {} THEN 1 ELSE CHOOSE i \in own : \A j \in own : i <= j
    IN  /\ respQ' = SubSeq(respQ, 1, k - 1) \o SubSeq(respQ, k + 1, Len(respQ))
        /\ gh' = [gh EXCEPT ![c].waits = @ + 1,
                            ![c].got = IF respQ[k].for = c THEN "own" ELSE "other",
                            ![c].rstatus = respQ[k].status,
                            ![c].rnvals = nvals,
                            ![c].copied = copied]
        /\ UNCHANGED cmdQ

\* m_communicationChannel->wait(GETRESPONSE, kco): blocks until the next
\* response is there and takes it
CanWait(c, op) ==
    /\ Alive
    /\ pc[c] = "wait"
    /\ call[c].op = op
    /\ m_communicationChannel = "open"
    /\ respQ # <<>>

Consume(c, copied, nvals) ==
    /\ respQ' = Tail(respQ)
    /\ gh' = [gh EXCEPT ![c].waits = @ + 1,
                        ![c].got = IF Head(respQ).for = c THEN "own" ELSE "other",
                        ![c].rstatus = Head(respQ).status,
                        ![c].rnvals = nvals,
                        ![c].copied = copied]
    /\ UNCHANGED cmdQ

\* the backend answers the oldest command with one response
Respond ==
    /\ Alive
    /\ cmdQ # <<>>
    /\ \E status \in BackendStatuses, nvals \in 0..MaxVals :
          respQ' = Append(respQ, [status |-> status, nvals |-> nvals,
                                  for |-> Head(cmdQ).owner])
    /\ cmdQ' = Tail(cmdQ)
    /\ UNCHANGED <<discipline, m_initialized, m_communicationChannel, m_linecard,
                   m_virtualObjectIdManager, m_meta, pc, call, ret, gh,
                   lastEvent, rootRemoved, prevFatal, nPc, nMsg, nSn, nLog>>

(* --------------------------- create (lines 113-175, 279-314) ----------- *)

\* a slip that answers every failed allocation alike
createAllocFailStatus_alike(objectType) == OTAI_STATUS_FAILURE

\* lines 132-151: the status of a create whose identifier allocation failed
createAllocFailStatus(objectType) ==
    IF objectType = OTAI_OBJECT_TYPE_LINECARD
    THEN OTAI_STATUS_FAILURE
    ELSE OTAI_STATUS_INSUFFICIENT_RESOURCES

\* a slip that writes the record of a create without attributes as it is
createEntryFields_nosentinel(attr_count) == attr_count

\* lines 287-300: the fields of the record; NULL=NULL when there are none
createEntryFields(attr_count) == IF attr_count = 0 THEN 1 ELSE attr_count

createEntrySentinel(attr_count) == attr_count = 0

\* Linecard(id, attr_count, attr_list): an empty callback table, then
\* updateNotifications over the attributes
LinecardNew(objectId, attr_count, attrId, ptr) ==
    [present |-> TRUE, id |-> objectId,
     cb |-> IF attr_count > 0 /\ attrId = AttrNotify THEN ptr ELSE NullPtr]

\* Linecard::updateNotifications(1, attr)
updateNotifications(lc, attrId, ptr) ==
    IF attrId = AttrNotify THEN [lc EXCEPT !.cb = ptr] ELSE lc

\* a slip that tracks the linecard whatever the status
linecardAfterCreate_anyStatus(lc, objectType, status, objectId, attr_count, attrId, ptr) ==
    IF objectType = OTAI_OBJECT_TYPE_LINECARD
    THEN LinecardNew(objectId, attr_count, attrId, ptr)
    ELSE lc

\* lines 161-172
linecardAfterCreate(lc, objectType, status, objectId, attr_count, attrId, ptr) ==
    IF objectType = OTAI_OBJECT_TYPE_LINECARD /\ status = OTAI_STATUS_SUCCESS
    THEN LinecardNew(objectId, attr_count, attrId, ptr)
    ELSE lc

\* a slip that keeps the linecard after its removal
linecardAfterRemove_keeps(lc, objectType, status) == lc

\* lines 187-191
linecardAfterRemove(lc, objectType, status) ==
    IF objectType = OTAI_OBJECT_TYPE_LINECARD /\ status = OTAI_STATUS_SUCCESS
    THEN NoLinecard
    ELSE lc

\* a slip that refreshes the table whatever the status of the set
linecardAfterSet_anyStatus(lc, objectType, status, attrId, ptr) ==
    IF objectType = OTAI_OBJECT_TYPE_LINECARD /\ lc.present
    THEN updateNotifications(lc, attrId, ptr)
    ELSE lc

\* lines 249-259
linecardAfterSet(lc, objectType, status, attrId, ptr) ==
    IF objectType = OTAI_OBJECT_TYPE_LINECARD /\ status = OTAI_STATUS_SUCCESS /\ lc.present
    THEN updateNotifications(lc, attrId, ptr)
    ELSE lc

\* the identifiers the virtualizer can hand out for a type; the null
\* identifier when allocation fails
Allocations(objectType) ==
    {OTAI_NULL_OBJECT_ID,
     IF objectType = OTAI_OBJECT_TYPE_LINECARD THEN LinecardVid ELSE OtherVid}

\* the attribute lists a caller passes to create: attr_count attributes, one
\* of which may be a notification pointer of the linecard
CreateArgs ==
    {a \in [objectType : ObjectTypes, count : 0..MaxCount, attrId : {AttrPlain, AttrNotify},
            ptr : Ptrs] :
        /\ (a.attrId = AttrPlain => a.ptr = NullPtr)
        /\ (a.attrId = AttrNotify => a.count > 0 /\ a.objectType = OTAI_OBJECT_TYPE_LINECARD)}

create(c) ==
    /\ CanEnter(c)
    /\ \E a \in CreateArgs :
         \E objectId \in Allocations(a.objectType) :
            /\ Enter(c, "create", a.objectType, a.attrId, a.ptr, a.count, objectId)
            /\ IF m_virtualObjectIdManager = "null"
               THEN Crash(c)
               ELSE IF objectId = OTAI_NULL_OBJECT_ID
               THEN /\ Finish(c, createAllocFailStatus(a.objectType))
                    /\ UNCHANGED <<cmdQ, respQ, gh>>
               ELSE IF m_communicationChannel = "null"
               THEN Crash(c)
               ELSE Enqueue(c, "CREATE", createEntryFields(a.count),
                            createEntrySentinel(a.count))
    /\ UNCHANGED <<discipline, m_initialized, m_communicationChannel, m_linecard,
                   m_virtualObjectIdManager, m_meta, lastEvent, rootRemoved, prevFatal,
                   nPc, nMsg, nSn, nLog>>

\* a slip that gives the wait up when no response is there
create_wait_timeout(c) ==
    /\ Alive
    /\ pc[c] = "wait"
    /\ call[c].op = "create"
    /\ m_communicationChannel = "open"
    /\ IF respQ = <<>>
       THEN /\ Finish(c, OTAI_STATUS_FAILURE)
            /\ UNCHANGED <<m_linecard, lastEvent, rootRemoved, nMsg, gh, cmdQ, respQ>>
       ELSE LET status == Head(respQ).status
                root == call[c].objectType = OTAI_OBJECT_TYPE_LINECARD
            IN  /\ Consume(c, "none", 0)
                /\ m_linecard' = linecardAfterCreate(m_linecard, call[c].objectType, status,
                                     call[c].objectId, call[c].count, call[c].attrId, call[c].ptr)
                /\ lastEvent' = IF root /\ status = OTAI_STATUS_SUCCESS
                                THEN "createRootOk" ELSE lastEvent
                /\ rootRemoved' = IF root /\ status = OTAI_STATUS_SUCCESS
                                  THEN FALSE ELSE rootRemoved
                /\ nMsg' = IF root /\ status = OTAI_STATUS_SUCCESS
                           THEN [nMsg EXCEPT !.afterRemove = FALSE] ELSE nMsg
                /\ Finish(c, status)
    /\ UNCHANGED <<discipline, m_initialized, m_communicationChannel,
                   m_virtualObjectIdManager, m_meta, call, prevFatal, nPc, nSn, nLog>>

\* lines 310 and 161-174: the wait of the generic create and what follows it
create_wait(c) ==
    /\ CanWait(c, "create")
    /\ LET status == Head(respQ).status
           root == call[c].objectType = OTAI_OBJECT_TYPE_LINECARD
       IN  /\ Consume(c, "none", 0)
           /\ m_linecard' = linecardAfterCreate(m_linecard, call[c].objectType, status,
                                call[c].objectId, call[c].count, call[c].attrId, call[c].ptr)
           /\ lastEvent' = IF root /\ status = OTAI_STATUS_SUCCESS
                           THEN "createRootOk" ELSE lastEvent
           /\ rootRemoved' = IF root /\ status = OTAI_STATUS_SUCCESS
                             THEN FALSE ELSE rootRemoved
           /\ nMsg' = IF root /\ status = OTAI_STATUS_SUCCESS
                      THEN [nMsg EXCEPT !.afterRemove = FALSE] ELSE nMsg
           /\ Finish(c, status)
    /\ UNCHANGED <<discipline, m_initialized, m_communicationChannel,
                   m_virtualObjectIdManager, m_meta, call, prevFatal, nPc, nSn, nLog>>

(* --------------------------- remove (lines 177-194, 316-333) ----------- *)

remove(c) ==
    /\ CanEnter(c)
    /\ \E objectType \in ObjectTypes :
         /\ Enter(c, "remove", objectType, AttrPlain, NullPtr, 0,
                  IF objectType = OTAI_OBJECT_TYPE_LINECARD THEN LinecardVid ELSE OtherVid)
         /\ IF m_communicationChannel = "null"
            THEN Crash(c)
            ELSE Enqueue(c, "REMOVE", 0, FALSE)
    /\ UNCHANGED <<discipline, m_initialized, m_communicationChannel, m_linecard,
                   m_virtualObjectIdManager, m_meta, lastEvent, rootRemoved, prevFatal,
                   nPc, nMsg, nSn, nLog>>

remove_wait(c) ==
    /\ CanWait(c, "remove")
    /\ LET status == Head(respQ).status
           root == call[c].objectType = OTAI_OBJECT_TYPE_LINECARD
       IN  /\ Consume(c, "none", 0)
           /\ m_linecard' = linecardAfterRemove(m_linecard, call[c].objectType, status)
           /\ lastEvent' = IF root /\ status = OTAI_STATUS_SUCCESS
                           THEN "removeRootOk" ELSE lastEvent
           /\ rootRemoved' = IF root /\ status = OTAI_STATUS_SUCCESS
                             THEN TRUE ELSE rootRemoved
           /\ Finish(c, status)
    /\ UNCHANGED <<discipline, m_initialized, m_communicationChannel,
                   m_virtualObjectIdManager, m_meta, call, prevFatal, nPc, nMsg, nSn, nLog>>

(* --------------------------- set (lines 196-262, 335-359, 564-576) ----- *)

\* a slip in the comparison with the start of the range
isRedisAttribute_offByOne(objectType, attrId) ==
    ~ (objectType # OTAI_OBJECT_TYPE_LINECARD
       \/ attrId <= OTAI_LINECARD_ATTR_CUSTOM_RANGE_START)

\* lines 570-575 (attr is never a null pointer here)
isRedisAttribute(objectType, attrId) ==
    ~ (objectType # OTAI_OBJECT_TYPE_LINECARD
       \/ attrId < OTAI_LINECARD_ATTR_CUSTOM_RANGE_START)

\* lines 215-229: does the extension attribute flush the transport
extensionFlushes(attrId) == attrId = OTAI_REDIS_LINECARD_ATTR_FLUSH

\* lines 215-229: the status of a set of an extension attribute
extensionStatus(attrId) ==
    IF attrId = OTAI_REDIS_LINECARD_ATTR_FLUSH
    THEN OTAI_STATUS_SUCCESS
    ELSE OTAI_STATUS_FAILURE

\* lines 196-230
setRedisExtensionAttribute(c, attrId) ==
    IF extensionFlushes(attrId) /\ m_communicationChannel = "null"
    THEN Crash(c)
    ELSE /\ gh' = [gh EXCEPT ![c].flushes = IF extensionFlushes(attrId) THEN @ + 1 ELSE @]
         /\ Finish(c, extensionStatus(attrId))
         /\ UNCHANGED <<cmdQ, respQ>>

\* the attribute a caller passes to set
SetArgs ==
    {a \in [objectType : ObjectTypes, attrId : AttrIds, ptr : Ptrs] :
        a.ptr # NullPtr => a.attrId = AttrNotify /\ a.objectType = OTAI_OBJECT_TYPE_LINECARD}

set(c) ==
    /\ CanEnter(c)
    /\ \E a \in SetArgs :
         /\ Enter(c, "set", a.objectType, a.attrId, a.ptr, 1,
                  IF a.objectType = OTAI_OBJECT_TYPE_LINECARD THEN LinecardVid ELSE OtherVid)
         /\ IF isRedisAttribute(a.objectType, a.attrId)
            THEN setRedisExtensionAttribute(c, a.attrId)
            ELSE IF m_communicationChannel = "null"
            THEN Crash(c)
            ELSE Enqueue(c, "SET", 1, FALSE)
    /\ UNCHANGED <<discipline, m_initialized, m_communicationChannel, m_linecard,
                   m_virtualObjectIdManager, m_meta, lastEvent, rootRemoved, prevFatal,
                   nPc, nMsg, nSn, nLog>>

\* lines 356 and 249-261
set_wait(c) ==
    /\ CanWait(c, "set")
    /\ LET status == Head(respQ).status
       IN  /\ Consume(c, "none", 0)
           /\ m_linecard' = linecardAfterSet(m_linecard, call[c].objectType, status,
                                             call[c].attrId, call[c].ptr)
           /\ Finish(c, status)
    /\ UNCHANGED <<discipline, m_initialized, m_communicationChannel,
                   m_virtualObjectIdManager, m_meta, call, lastEvent, rootRemoved, prevFatal,
                   nPc, nMsg, nSn, nLog>>

(* --------------------------- get (lines 264-277, 375-446) -------------- *)

get(c) ==
    /\ CanEnter(c)
    /\ \E objectType \in ObjectTypes, attr_count \in 0..MaxCount :
         /\ Enter(c, "get", objectType, AttrPlain, NullPtr, attr_count,
                  IF objectType = OTAI_OBJECT_TYPE_LINECARD THEN LinecardVid ELSE OtherVid)
         /\ IF m_communicationChannel = "null"
            THEN Crash(c)
            ELSE Enqueue(c, "GET", attr_count, FALSE)
    /\ UNCHANGED <<discipline, m_initialized, m_communicationChannel, m_linecard,
                   m_virtualObjectIdManager, m_meta, lastEvent, rootRemoved, prevFatal,
                   nPc, nMsg, nSn, nLog>>

\* a slip that lets an empty BufferOverflow payload through
getResponseResult_noOverflowCheck(status, nvals) ==
    IF status = OTAI_STATUS_SUCCESS
    THEN IF nvals = 0 THEN Fatal ELSE status
    ELSE status

\* lines 388-412: what the call ends with, given the response
getResponseResult(status, nvals) ==
    IF status = OTAI_STATUS_SUCCESS
    THEN IF nvals = 0 THEN Fatal ELSE status
    ELSE IF status = OTAI_STATUS_BUFFER_OVERFLOW
    THEN IF nvals = 0 THEN Fatal ELSE status
    ELSE status

\* lines 395-397 and 406-409: transfer_attributes into the caller's buffer,
\* values on Success, counts only on BufferOverflow
getResponseCopied(status, nvals) ==
    IF status = OTAI_STATUS_SUCCESS
    THEN IF nvals = 0 THEN "none" ELSE "values"
    ELSE IF status = OTAI_STATUS_BUFFER_OVERFLOW
    THEN IF nvals = 0 THEN "none" ELSE "counts"
    ELSE "none"

waitForGetResponse(c) ==
    /\ CanWait(c, "get")
    /\ LET r == Head(respQ)
       IN  /\ Consume(c, getResponseCopied(r.status, r.nvals), r.nvals)
           /\ Finish(c, getResponseResult(r.status, r.nvals))
    /\ UNCHANGED <<discipline, m_initialized, m_communicationChannel, m_linecard,
                   m_virtualObjectIdManager, m_meta, call, lastEvent, rootRemoved, prevFatal,
                   nPc, nMsg, nSn, nLog>>

(* --------------------------- statistics (lines 449-562) ---------------- *)

getStats(c) ==
    /\ CanEnter(c)
    /\ \E objectType \in ObjectTypes, number_of_counters \in 0..MaxCount :
         /\ Enter(c, "getStats", objectType, AttrPlain, NullPtr, number_of_counters,
                  IF objectType = OTAI_OBJECT_TYPE_LINECARD THEN LinecardVid ELSE OtherVid)
         /\ IF m_communicationChannel = "null"
            THEN Crash(c)
            ELSE Enqueue(c, "GET_STATS", number_of_counters, FALSE)
    /\ UNCHANGED <<discipline, m_initialized, m_communicationChannel, m_linecard,
                   m_virtualObjectIdManager, m_meta, lastEvent, rootRemoved, prevFatal,
                   nPc, nMsg, nSn, nLog>>

\* a slip that drops the count check
getStatsResponseResult_noCheck(status, nvals, number_of_counters) == status

\* lines 487-507
getStatsResponseResult(status, nvals, number_of_counters) ==
    IF status = OTAI_STATUS_SUCCESS
    THEN IF nvals # number_of_counters THEN Fatal ELSE status
    ELSE status

\* lines 496-504: the counters are written on Success with a matching count
getStatsResponseCopied(status, nvals, number_of_counters) ==
    IF status = OTAI_STATUS_SUCCESS /\ nvals = number_of_counters /\ number_of_counters > 0
    THEN "values"
    ELSE "none"

\* a slip that checks the count of the response before taking it off the path
waitForGetStatsResponse_peeks(c) ==
    /\ CanWait(c, "getStats")
    /\ LET r == Head(respQ)
           result == getStatsResponseResult(r.status, r.nvals, call[c].count)
       IN  IF result = Fatal
           THEN /\ Finish(c, Fatal)
                /\ UNCHANGED <<gh, cmdQ, respQ>>
           ELSE /\ Consume(c, getStatsResponseCopied(r.status, r.nvals, call[c].count), r.nvals)
                /\ Finish(c, result)
    /\ UNCHANGED <<discipline, m_initialized, m_communicationChannel, m_linecard,
                   m_virtualObjectIdManager, m_meta, call, lastEvent, rootRemoved, prevFatal,
                   nPc, nMsg, nSn, nLog>>

waitForGetStatsResponse(c) ==
    /\ CanWait(c, "getStats")
    /\ LET r == Head(respQ)
       IN  /\ Consume(c, getStatsResponseCopied(r.status, r.nvals, call[c].count), r.nvals)
           /\ Finish(c, getStatsResponseResult(r.status, r.nvals, call[c].count))
    /\ UNCHANGED <<discipline, m_initialized, m_communicationChannel, m_linecard,
                   m_virtualObjectIdManager, m_meta, call, lastEvent, rootRemoved, prevFatal,
                   nPc, nMsg, nSn, nLog>>

\* a slip that makes the unsupported call a silent no-op
getStatsExt_silent(c) ==
    /\ CanEnter(c)
    /\ \E objectType \in ObjectTypes, number_of_counters \in 0..MaxCount :
         Enter(c, "getStatsExt", objectType, AttrPlain, NullPtr, number_of_counters,
               IF objectType = OTAI_OBJECT_TYPE_LINECARD THEN LinecardVid ELSE OtherVid)
    /\ Finish(c, OTAI_STATUS_SUCCESS)
    /\ UNCHANGED <<discipline, m_initialized, m_communicationChannel, m_linecard,
                   m_virtualObjectIdManager, m_meta, gh, cmdQ, respQ,
                   lastEvent, rootRemoved, prevFatal, nPc, nMsg, nSn, nLog>>

\* lines 510-525
getStatsExt(c) ==
    /\ CanEnter(c)
    /\ \E objectType \in ObjectTypes, number_of_counters \in 0..MaxCount :
         Enter(c, "getStatsExt", objectType, AttrPlain, NullPtr, number_of_counters,
               IF objectType = OTAI_OBJECT_TYPE_LINECARD THEN LinecardVid ELSE OtherVid)
    /\ Finish(c, OTAI_STATUS_NOT_IMPLEMENTED)
    /\ UNCHANGED <<discipline, m_initialized, m_communicationChannel, m_linecard,
                   m_virtualObjectIdManager, m_meta, gh, cmdQ, respQ,
                   lastEvent, rootRemoved, prevFatal, nPc, nMsg, nSn, nLog>>

clearStats(c) ==
    /\ CanEnter(c)
    /\ \E objectType \in ObjectTypes, number_of_counters \in 0..MaxCount :
         /\ Enter(c, "clearStats", objectType, AttrPlain, NullPtr, number_of_counters,
                  IF objectType = OTAI_OBJECT_TYPE_LINECARD THEN LinecardVid ELSE OtherVid)
         /\ IF m_communicationChannel = "null"
            THEN Crash(c)
            ELSE Enqueue(c, "CLEAR_STATS", number_of_counters, FALSE)
    /\ UNCHANGED <<discipline, m_initialized, m_communicationChannel, m_linecard,
                   m_virtualObjectIdManager, m_meta, lastEvent, rootRemoved, prevFatal,
                   nPc, nMsg, nSn, nLog>>

\* a slip that returns without waiting for the response
waitForClearStatsResponse_nowait(c) ==
    /\ Alive
    /\ pc[c] = "wait"
    /\ call[c].op = "clearStats"
    /\ Finish(c, OTAI_STATUS_SUCCESS)
    /\ UNCHANGED <<discipline, m_initialized, m_communicationChannel, m_linecard,
                   m_virtualObjectIdManager, m_meta, call, gh, cmdQ, respQ,
                   lastEvent, rootRemoved, prevFatal, nPc, nMsg, nSn, nLog>>

\* lines 553-562
waitForClearStatsResponse(c) ==
    /\ CanWait(c, "clearStats")
    /\ Consume(c, "none", 0)
    /\ Finish(c, Head(respQ).status)
    /\ UNCHANGED <<discipline, m_initialized, m_communicationChannel, m_linecard,
                   m_virtualObjectIdManager, m_meta, call, lastEvent, rootRemoved, prevFatal,
                   nPc, nMsg, nSn, nLog>>

(* ------------------- notification dispatch (lines 578-609, 661-694) ---- *)

fgVars == <<discipline, m_initialized, m_communicationChannel, m_linecard,
            m_virtualObjectIdManager, m_meta, pc, call, ret, gh, cmdQ, respQ,
            lastEvent, rootRemoved, prevFatal>>

\* lines 599-601: the transport's thread hands a message to handleNotification;
\* NotificationFactory::deserialize yields nothing for a name it does not know
handleNotification ==
    /\ Alive
    /\ m_communicationChannel = "open"
    /\ nPc = "idle"
    /\ \E known \in BOOLEAN :
         /\ nMsg' = [known |-> known, afterRemove |-> rootRemoved]
         /\ nLog' = [NoLog EXCEPT !.outcome = IF known THEN "none" ELSE "unknownName"]
         /\ nPc' = IF known THEN "callback" ELSE "return"
    /\ nSn' = NullPtr
    /\ UNCHANGED fgVars

\* a slip that returns the table without clearing it
expiredTable_uninit == MaxPtr

\* lines 670-677: the table returned when the metadata reference is expired
expiredTable == NullPtr

\* a slip that looks the linecard up without validating the metadata
syncProcessNotification_unvalidated ==
    /\ Alive
    /\ nPc = "callback"
    /\ discipline = "mutex" => \A c \in Callers : pc[c] = "idle"
    /\ IF m_meta = "expired"
       THEN /\ nSn' = expiredTable
            /\ nLog' = [nLog EXCEPT !.outcome = "metaExpired"]
            /\ nPc' = "executeCallback"
       ELSE /\ nPc' = "linecardIdQuery"
            /\ UNCHANGED <<nSn, nLog>>
    /\ UNCHANGED <<nMsg>>
    /\ UNCHANGED fgVars

\* a slip that calls syncProcessNotification directly at line 603, past the
\* callback that takes the API mutex
syncProcessNotification_direct ==
    /\ Alive
    /\ nPc = "callback"
    /\ IF m_meta = "expired"
       THEN /\ nSn' = expiredTable
            /\ nLog' = [nLog EXCEPT !.outcome = "metaExpired"]
            /\ nPc' = "executeCallback"
       ELSE /\ nPc' = "processMetadata"
            /\ UNCHANGED <<nSn, nLog>>
    /\ UNCHANGED <<nMsg>>
    /\ UNCHANGED fgVars

\* line 603 and lines 670-677: m_notificationCallback enters
\* syncProcessNotification, under the API mutex when the callers use one;
\* m_meta.lock() yields nothing when the metadata is gone
syncProcessNotification ==
    /\ Alive
    /\ nPc = "callback"
    /\ discipline = "mutex" => \A c \in Callers : pc[c] = "idle"
    /\ IF m_meta = "expired"
       THEN /\ nSn' = expiredTable
            /\ nLog' = [nLog EXCEPT !.outcome = "metaExpired"]
            /\ nPc' = "executeCallback"
       ELSE /\ nPc' = "processMetadata"
            /\ UNCHANGED <<nSn, nLog>>
    /\ UNCHANGED <<nMsg>>
    /\ UNCHANGED fgVars

\* line 679
processMetadata ==
    /\ Alive
    /\ nPc = "processMetadata"
    /\ nLog' = [nLog EXCEPT !.validated = TRUE]
    /\ nPc' = "linecardIdQuery"
    /\ UNCHANGED <<nMsg, nSn>>
    /\ UNCHANGED fgVars

\* lines 681-683
linecardIdQuery ==
    /\ Alive
    /\ nPc = "linecardIdQuery"
    /\ nPc' = IF m_virtualObjectIdManager = "null" THEN "crashed" ELSE "lookup"
    /\ UNCHANGED <<nMsg, nSn, nLog>>
    /\ UNCHANGED fgVars

\* a slip that hands back a table that was never cleared when no linecard is tracked
linecardNotifications_uncleared(lc) == IF lc.present THEN lc.cb ELSE MaxPtr

\* lines 685-693: the copy of the callback table handed back
linecardNotifications(lc) == IF lc.present THEN lc.cb ELSE NullPtr

\* a slip that hands the linecard's table over instead of copying it
lookupLinecard_moves ==
    /\ Alive
    /\ nPc = "lookup"
    /\ nSn' = linecardNotifications(m_linecard)
    /\ nLog' = [nLog EXCEPT !.looked = TRUE,
                            !.outcome = IF m_linecard.present THEN "none" ELSE "noLinecard"]
    /\ nPc' = "executeCallback"
    /\ m_linecard' = [m_linecard EXCEPT !.cb = NullPtr]
    /\ UNCHANGED <<nMsg>>
    /\ UNCHANGED <<discipline, m_initialized, m_communicationChannel,
                   m_virtualObjectIdManager, m_meta, pc, call, ret, gh, cmdQ, respQ,
                   lastEvent, rootRemoved, prevFatal>>

lookupLinecard ==
    /\ Alive
    /\ nPc = "lookup"
    /\ nSn' = linecardNotifications(m_linecard)
    /\ nLog' = [nLog EXCEPT !.looked = TRUE,
                            !.outcome = IF m_linecard.present THEN "none" ELSE "noLinecard"]
    /\ nPc' = "executeCallback"
    /\ UNCHANGED <<nMsg>>
    /\ UNCHANGED fgVars

\* Notification::executeCallback(sn): calls the user's function when the
\* table holds one for this class of notification
callbackInvoked(sn) == sn # NullPtr

\* line 607
executeCallback ==
    /\ Alive
    /\ nPc = "executeCallback"
    /\ nLog' = IF callbackInvoked(nSn)
               THEN [nLog EXCEPT !.called = @ + 1, !.outcome = "invoked"]
               ELSE nLog
    /\ nPc' = "return"
    /\ UNCHANGED <<nMsg, nSn>>
    /\ UNCHANGED fgVars

\* line 609: handleNotification returns; the notification is gone
handleNotification_return ==
    /\ Alive
    /\ nPc = "return"
    /\ nPc' = "idle"
    /\ nMsg' = NoMsg
    /\ nSn' = NullPtr
    /\ nLog' = NoLog
    /\ UNCHANGED fgVars

\* lines 653-659: a foreground call like the others, entered when the
\* callers' discipline lets one of them in; it is over in one step
setMeta ==
    /\ \E c \in Callers : CanEnter(c)
    /\ m_meta = "expired"
    /\ m_meta' = "live"
    /\ UNCHANGED <<discipline, m_initialized, m_communicationChannel, m_linecard,
                   m_virtualObjectIdManager, pc, call, ret, gh, cmdQ, respQ,
                   lastEvent, rootRemoved, prevFatal, nPc, nMsg, nSn, nLog>>

\* the owner of the metadata lets go of it: the weak reference expires
metaExpires ==
    /\ Alive
    /\ m_meta = "live"
    /\ m_meta' = "expired"
    /\ UNCHANGED <<discipline, m_initialized, m_communicationChannel, m_linecard,
                   m_virtualObjectIdManager, pc, call, ret, gh, cmdQ, respQ,
                   lastEvent, rootRemoved, prevFatal, nPc, nMsg, nSn, nLog>>

(* ------------------------------ specification -------------------------- *)

Next ==
    \/ \E c \in Callers : initialize(c)
    \/ \E c \in Callers : initialize_clear_linecard(c)
    \/ \E c \in Callers : initialize_clear_vid(c)
    \/ \E c \in Callers : initialize_end(c)
    \/ \E c \in Callers : uninitialize(c)
    \/ \E c \in Callers : uninitialize_stop(c)
    \/ \E c \in Callers : uninitialize_clear_linecard(c)
    \/ \E c \in Callers : uninitialize_clear_vid(c)
    \/ \E c \in Callers : uninitialize_end(c)
    \/ \E c \in Callers : create(c)
    \/ \E c \in Callers : create_wait(c)
    \/ \E c \in Callers : remove(c)
    \/ \E c \in Callers : remove_wait(c)
    \/ \E c \in Callers : set(c)
    \/ \E c \in Callers : set_wait(c)
    \/ \E c \in Callers : get(c)
    \/ \E c \in Callers : waitForGetResponse(c)
    \/ \E c \in Callers : getStats(c)
    \/ \E c \in Callers : waitForGetStatsResponse(c)
    \/ \E c \in Callers : getStatsExt(c)
    \/ \E c \in Callers : clearStats(c)
    \/ \E c \in Callers : waitForClearStatsResponse(c)
    \/ \E c \in Callers : Return(c)
    \/ Respond
    \/ handleNotification
    \/ syncProcessNotification
    \/ processMetadata
    \/ linecardIdQuery
    \/ lookupLinecard
    \/ executeCallback
    \/ handleNotification_return
    \/ setMeta
    \/ metaExpires

Spec == Init /\ [][Next]_vars

\* the blocking wait of caller c, whichever call it is in
WaitStep(c) ==
    \/ create_wait(c)
    \/ remove_wait(c)
    \/ set_wait(c)
    \/ waitForGetResponse(c)
    \/ waitForGetStatsResponse(c)
    \/ waitForClearStatsResponse(c)

\* A backend that answers every command, and callers whose blocked wait
\* resumes once a response is there.
SpecFair ==
    /\ Init
    /\ [][Next]_vars
    /\ WF_vars(Respond)
    /\ \A c \in Callers : WF_vars(WaitStep(c))

\* Callers that do not keep the precondition: object API calls on one
\* initialized instance, entered with no serialization between them.
InitOverlap ==
    /\ discipline = "none"
    /\ m_initialized = TRUE
    /\ m_communicationChannel = "open"
    /\ m_linecard = NoLinecard
    /\ m_virtualObjectIdManager = "ready"
    /\ m_meta = "expired"
    /\ pc = [c \in Callers |-> "idle"]
    /\ call = [c \in Callers |-> NoCall]
    /\ ret = [c \in Callers |-> NoStatus]
    /\ gh = [c \in Callers |-> NoGh]
    /\ cmdQ = <<>>
    /\ respQ = <<>>
    /\ lastEvent = "initialize"
    /\ rootRemoved = FALSE
    /\ prevFatal = FALSE
    /\ nPc = "idle"
    /\ nMsg = NoMsg
    /\ nSn = NullPtr
    /\ nLog = NoLog

NextOverlap ==
    \/ \E c \in Callers : create(c)
    \/ \E c \in Callers : create_wait(c)
    \/ \E c \in Callers : remove(c)
    \/ \E c \in Callers : remove_wait(c)
    \/ \E c \in Callers : set(c)
    \/ \E c \in Callers : set_wait(c)
    \/ \E c \in Callers : get(c)
    \/ \E c \in Callers : waitForGetResponse(c)
    \/ \E c \in Callers : getStats(c)
    \/ \E c \in Callers : waitForGetStatsResponse(c)
    \/ \E c \in Callers : clearStats(c)
    \/ \E c \in Callers : waitForClearStatsResponse(c)
    \/ \E c \in Callers : Return(c)
    \/ Respond

SpecOverlap == InitOverlap /\ [][NextOverlap]_vars

TypeOK ==
    /\ discipline \in {"mutex", "singleWriter", "none"}
    /\ m_initialized \in BOOLEAN
    /\ m_communicationChannel \in {"null", "open"}
    /\ m_linecard \in [present : BOOLEAN, id : {OTAI_NULL_OBJECT_ID, LinecardVid}, cb : Ptrs]
    /\ m_virtualObjectIdManager \in {"null", "ready"}
    /\ m_meta \in {"expired", "live"}
    /\ \A c \in Callers : call[c].op \in Ops
    /\ Len(cmdQ) + Len(respQ) <= MaxQueue
    /\ prevFatal \in BOOLEAN

(* -------------------------------- claims ------------------------------- *)

Done(c, op) == pc[c] = "done" /\ call[c].op = op

\* C1: with calls that never overlap and a backend that answers every command
\* once and in order, the response a call's blocking wait takes is the
\* response to the command this same call enqueued.
C1_OwnResponse ==
    \A c \in Callers : gh[c].waits > 0 => gh[c].got = "own"

C1_Witness ==
    \E c \in Callers : Done(c, "get") /\ gh[c].got = "own" /\ m_linecard.present

\* C2 as stated: every create, remove, set, get, getStats and clearStats call
\* has enqueued exactly one command and done exactly one wait when it returns.
C2_Original ==
    \A c \in Callers :
        pc[c] = "done" /\ call[c].op \in ObjOps => gh[c].enq = 1 /\ gh[c].waits = 1

\* the calls that end before they reach the transport
C2_SkipsTransport(c) ==
    \/ call[c].op = "create" /\ call[c].objectId = OTAI_NULL_OBJECT_ID
    \/ /\ call[c].op = "set"
       /\ call[c].objectType = OTAI_OBJECT_TYPE_LINECARD
       /\ call[c].attrId >= OTAI_LINECARD_ATTR_CUSTOM_RANGE_START

\* C2, amended: a call that reaches the transport enqueues exactly one command
\* and then waits exactly once before it ends; a create whose allocation
\* failed and a set of a root-type extension attribute enqueue nothing and
\* never wait.
C2_Amended ==
    \A c \in Callers :
        call[c].op \in ObjOps =>
            /\ pc[c] = "wait" => gh[c].enq = 1 /\ gh[c].waits = 0
            /\ pc[c] = "done" =>
                 IF C2_SkipsTransport(c)
                 THEN gh[c].enq = 0 /\ gh[c].waits = 0
                 ELSE gh[c].enq = 1 /\ gh[c].waits = 1

C2_Witness ==
    \E c \in Callers :
        Done(c, "create") /\ ret[c] = OTAI_STATUS_SUCCESS /\ gh[c].enq = 1 /\ gh[c].waits = 1

\* C3: in uninitialize the transport client is gone, and its notification
\* thread is out of handleNotification, before the local state is cleared and
\* until the call ends: no step of the dispatch runs once clearing has begun.
C3_StopBeforeClear ==
    \A c \in Callers :
        pc[c] \in {"un_clear", "un_vid", "un_flag"} =>
            m_communicationChannel = "null" /\ nPc = "idle"

C3_Witness ==
    \E c \in Callers : pc[c] = "un_vid" /\ m_meta = "live" /\ rootRemoved

\* a lifecycle call that fails does so in the one step of its guard
C4_FailStep(c) ==
    /\ pc[c] = "idle"
    /\ pc'[c] = "done"
    /\ call'[c].op \in {"initialize", "uninitialize"}
    /\ ret'[c] # OTAI_STATUS_SUCCESS

C4_Results ==
    \A c \in Callers :
        /\ Done(c, "initialize") =>
              /\ ret[c] \in {OTAI_STATUS_SUCCESS, OTAI_STATUS_FAILURE}
              /\ ret[c] = OTAI_STATUS_SUCCESS <=> gh[c].pre = "Uninitialized"
              /\ ret[c] = OTAI_STATUS_SUCCESS => m_initialized
        /\ Done(c, "uninitialize") =>
              /\ ret[c] \in {OTAI_STATUS_SUCCESS, OTAI_STATUS_FAILURE}
              /\ ret[c] = OTAI_STATUS_SUCCESS <=> gh[c].pre = "Initialized"
              /\ ret[c] = OTAI_STATUS_SUCCESS => ~m_initialized

\* C4: initialize succeeds exactly when the state is Uninitialized and leaves
\* it Initialized; uninitialize succeeds exactly when it is Initialized and
\* leaves it Uninitialized; a failing call returns Failure and changes neither
\* the lifecycle state, nor the transport client, nor the tracked linecard.
C4_Lifecycle ==
    /\ []C4_Results
    /\ [][\A c \in Callers :
            C4_FailStep(c) =>
               /\ ret'[c] = OTAI_STATUS_FAILURE
               /\ UNCHANGED <<m_initialized, m_communicationChannel, m_linecard>>]_vars

C4_Witness ==
    \E c \in Callers :
        Done(c, "uninitialize") /\ ret[c] = OTAI_STATUS_FAILURE
        /\ gh[c].pre = "Uninitialized"

\* a create or remove that ends without success, or on a type other than the root
C5_NoEffectStep(c) ==
    /\ pc[c] = "wait"
    /\ pc'[c] = "done"
    /\ call[c].op \in {"create", "remove"}
    /\ ret'[c] # OTAI_STATUS_SUCCESS \/ call[c].objectType # OTAI_OBJECT_TYPE_LINECARD

\* C5: a linecard is tracked exactly when the last event that took effect,
\* among a successful root create, a successful root remove, an initialize
\* and an uninitialize, is a successful root create; an unsuccessful create or
\* remove, and one of another type, leaves the tracked linecard as it is.
C5_TrackedIffCreated ==
    /\ [](m_linecard.present <=> lastEvent = "createRootOk")
    /\ [][\A c \in Callers : C5_NoEffectStep(c) => m_linecard' = m_linecard]_vars

C5_Witness ==
    \E c \in Callers :
        /\ Done(c, "remove")
        /\ call[c].objectType = OTAI_OBJECT_TYPE_LINECARD
        /\ ret[c] = OTAI_STATUS_FAILURE
        /\ m_linecard.present

C7_ExtensionSet(c) ==
    /\ call[c].op = "set"
    /\ call[c].objectType = OTAI_OBJECT_TYPE_LINECARD
    /\ call[c].attrId >= OTAI_LINECARD_ATTR_CUSTOM_RANGE_START

C7_Results ==
    \A c \in Callers :
        C7_ExtensionSet(c) =>
            /\ pc[c] # "wait"
            /\ pc[c] = "done" =>
                 /\ gh[c].enq = 0 /\ gh[c].waits = 0
                 /\ IF call[c].attrId = OTAI_REDIS_LINECARD_ATTR_FLUSH
                    THEN gh[c].flushes = 1 /\ ret[c] = OTAI_STATUS_SUCCESS
                    ELSE gh[c].flushes = 0 /\ ret[c] = OTAI_STATUS_FAILURE

\* C7: a set of a root-type extension attribute enqueues nothing and never
\* waits; FLUSH flushes the transport once and returns Success, any other id
\* in the range returns Failure without a flush; the tracked linecard is
\* unchanged, whether one is tracked or not.
C7_ExtensionAttribute ==
    /\ []C7_Results
    /\ [][\A c \in Callers :
            pc[c] = "idle" /\ C7_ExtensionSet(c)' =>
               m_linecard' = m_linecard /\ cmdQ' = cmdQ /\ respQ' = respQ]_vars

C7_Witness ==
    \E c \in Callers :
        /\ Done(c, "set") /\ C7_ExtensionSet(c)
        /\ call[c].attrId = OTAI_REDIS_LINECARD_ATTR_FLUSH
        /\ ret[c] = OTAI_STATUS_SUCCESS
        /\ ~m_linecard.present

\* C8: a get whose response has status Success or BufferOverflow and an empty
\* payload ends in the fatal error: it returns neither status and copies
\* nothing into the caller's buffer.
C8_EmptyPayloadFatal ==
    \A c \in Callers :
        /\ Done(c, "get")
        /\ gh[c].rstatus \in {OTAI_STATUS_SUCCESS, OTAI_STATUS_BUFFER_OVERFLOW}
        /\ gh[c].rnvals = 0
        => ret[c] = Fatal /\ gh[c].copied = "none"

C8_Witness ==
    \E c \in Callers :
        /\ Done(c, "get")
        /\ gh[c].rstatus = OTAI_STATUS_BUFFER_OVERFLOW
        /\ gh[c].rnvals = 0
        /\ ret[c] = Fatal

\* C9 as stated: getStats ends in the fatal error for every response whose
\* number of values differs from the number of counters requested.
C9_Original ==
    \A c \in Callers :
        Done(c, "getStats") /\ gh[c].rnvals # call[c].count => ret[c] = Fatal

\* C9, amended: getStats ends in the fatal error exactly for a response with
\* status Success whose number of values differs from the number of counters
\* requested; with any other status it returns that status.
C9_Amended ==
    \A c \in Callers :
        Done(c, "getStats") =>
            /\ ret[c] = Fatal <=>
                  gh[c].rstatus = OTAI_STATUS_SUCCESS /\ gh[c].rnvals # call[c].count
            /\ ret[c] # Fatal => ret[c] = gh[c].rstatus

C9_Witness ==
    \E c \in Callers :
        /\ Done(c, "getStats")
        /\ gh[c].rstatus = OTAI_STATUS_SUCCESS
        /\ gh[c].rnvals # call[c].count
        /\ ret[c] = Fatal

\* C10 as stated: create returns InsufficientResources whenever the
\* allocation of the identifier fails, for the root type and for every other.
C10_Original ==
    \A c \in Callers :
        Done(c, "create") /\ call[c].objectId = OTAI_NULL_OBJECT_ID =>
            ret[c] = OTAI_STATUS_INSUFFICIENT_RESOURCES

\* C10, amended: when the allocation of the identifier fails, create returns
\* InsufficientResources for every type other than the root and Failure for
\* the root type, and in both cases enqueues no command.
C10_Amended ==
    \A c \in Callers :
        Done(c, "create") /\ call[c].objectId = OTAI_NULL_OBJECT_ID =>
            /\ ret[c] = IF call[c].objectType = OTAI_OBJECT_TYPE_LINECARD
                        THEN OTAI_STATUS_FAILURE
                        ELSE OTAI_STATUS_INSUFFICIENT_RESOURCES
            /\ gh[c].enq = 0

C10_Witness ==
    \E c \in Callers :
        /\ Done(c, "create")
        /\ call[c].objectId = OTAI_NULL_OBJECT_ID
        /\ call[c].objectType = OTAI_OBJECT_TYPE_LINECARD
        /\ ret[c] = OTAI_STATUS_FAILURE

\* a step of a set call, from its entry to its end
C11_SetStep(c) == pc'[c] # pc[c] /\ call'[c].op = "set"

\* a set of a non-extension attribute of the root type ends with Success
C11_RootSetOk(c) ==
    /\ pc[c] = "wait"
    /\ pc'[c] = "done"
    /\ call[c].objectType = OTAI_OBJECT_TYPE_LINECARD
    /\ ret'[c] = OTAI_STATUS_SUCCESS

\* C11: a successful set of a non-extension attribute of the root type
\* refreshes the callback table of the tracked linecard with that attribute,
\* when one is tracked; a set that ends with another status, and a set on
\* another type, leaves the linecard and its table as they are; no step of a
\* set creates or discards the linecard.
C11_SetRefreshesTable ==
    [][\A c \in Callers :
          C11_SetStep(c) =>
             /\ m_linecard'.present = m_linecard.present
             /\ m_linecard'.id = m_linecard.id
             /\ IF C11_RootSetOk(c) /\ m_linecard.present /\ call[c].attrId = AttrNotify
                THEN m_linecard'.cb = call[c].ptr
                ELSE m_linecard'.cb = m_linecard.cb]_vars

C11_Witness ==
    \E c \in Callers :
        /\ Done(c, "set")
        /\ call[c].objectType = OTAI_OBJECT_TYPE_LINECARD
        /\ call[c].attrId = AttrNotify
        /\ call[c].ptr # NullPtr
        /\ ret[c] = OTAI_STATUS_SUCCESS
        /\ m_linecard.present
        /\ m_linecard.cb = call[c].ptr

\* C12: every CREATE command on the transport carries at least one field; the
\* command of a create without attributes carries exactly one field, the
\* sentinel NULL=NULL, for the root type and for every other.
C12_CreateHasField ==
    \A i \in DOMAIN cmdQ :
        cmdQ[i].tag = "CREATE" =>
            /\ cmdQ[i].fields >= 1
            /\ cmdQ[i].sentinel => cmdQ[i].fields = 1
            /\ \A c \in Callers :
                  cmdQ[i].owner = c /\ call[c].op = "create" =>
                      (call[c].count = 0 <=> cmdQ[i].sentinel)

C12_Witness ==
    \E i \in DOMAIN cmdQ, c \in Callers :
        /\ cmdQ[i].tag = "CREATE" /\ cmdQ[i].owner = c
        /\ call[c].op = "create" /\ call[c].count = 0
        /\ call[c].objectType = OTAI_OBJECT_TYPE_LINECARD
        /\ cmdQ[i].fields = 1 /\ cmdQ[i].sentinel

\* the dispatch of a notification found the metadata reference expired
C13_Expired == nLog.outcome = "metaExpired"

\* C13: a notification dispatched while the metadata reference is expired is
\* dropped: no metadata validation, no linecard lookup, no user callback and
\* no error; handleNotification returns and the thread is ready for the next
\* message.
C13_ExpiredDropped ==
    /\ [](C13_Expired =>
            /\ ~nLog.validated /\ ~nLog.looked /\ nLog.called = 0
            /\ nSn = NullPtr
            /\ nPc \in {"executeCallback", "return"})
    /\ [][C13_Expired /\ nPc' # nPc =>
            \/ nPc = "executeCallback" /\ nPc' = "return"
            \/ nPc = "return" /\ nPc' = "idle"]_vars

C13_Witness ==
    /\ C13_Expired /\ nPc = "return"
    /\ m_linecard.present /\ m_linecard.cb # NullPtr

\* C14: getStatsExt returns NotImplemented, initialized or not and whatever
\* its arguments; it enqueues nothing, waits for nothing, flushes nothing
\* and changes no state of the facade, of the transport or of the dispatch.
C14_NotImplemented ==
    /\ [](\A c \in Callers :
            call[c].op = "getStatsExt" =>
               /\ pc[c] = "done"
               /\ ret[c] = OTAI_STATUS_NOT_IMPLEMENTED
               /\ gh[c] = NoGh)
    /\ [][\A c \in Callers :
            call'[c].op = "getStatsExt" /\ pc'[c] # pc[c] =>
               UNCHANGED <<m_initialized, m_communicationChannel, m_linecard,
                           m_virtualObjectIdManager, m_meta, cmdQ, respQ,
                           nPc, nMsg, nSn, nLog>>]_vars

C14_Witness ==
    \E c \in Callers :
        /\ Done(c, "getStatsExt")
        /\ ret[c] = OTAI_STATUS_NOT_IMPLEMENTED
        /\ ~m_initialized /\ m_communicationChannel = "null"
        /\ call[c].objectType = OTAI_OBJECT_TYPE_LINECARD

\* the calls that hand the status of the response back as it is
C15_StatusOps == {"create", "remove", "set", "clearStats"}

\* C15: the facade does not match responses to commands. The blocking wait of
\* a call takes the response at the head of the shared path, whichever call's
\* command it answers, and the call returns the status of that response; with
\* overlapping calls this is the response to another call's command.
C15_TakesHead ==
    [][\A c \in Callers :
          pc[c] = "wait" /\ pc'[c] = "done" =>
             /\ respQ # <<>>
             /\ respQ' = Tail(respQ)
             /\ gh'[c].got = "other" <=> Head(respQ).for # c
             /\ call[c].op \in C15_StatusOps => ret'[c] = Head(respQ).status]_vars

\* two calls overlap; the remove has returned the status of the response to
\* the other call's command, and its own response, with another status, is
\* still on the path
C15_Witness ==
    \E c, d \in Callers :
        /\ c # d
        /\ Done(c, "remove") /\ gh[c].got = "other"
        /\ pc[d] = "wait" /\ call[d].op = "get"
        /\ \E i \in DOMAIN respQ : respQ[i].for = c /\ respQ[i].status # ret[c]

\* C16: the steps of a dispatch come in order. A message whose name the
\* factory does not know is dropped with no validation, no lookup and no
\* callback; for any other, the metadata is validated before the linecard is
\* looked up and before a user callback is invoked, and the callback is
\* invoked at most once for the notification.
C16_DispatchOrder ==
    /\ nPc # "idle" /\ ~nMsg.known =>
          nPc = "return" /\ ~nLog.validated /\ ~nLog.looked /\ nLog.called = 0
    /\ nPc \in {"linecardIdQuery", "lookup"} => nLog.validated
    /\ nLog.looked => nLog.validated
    /\ nLog.called > 0 => nLog.validated /\ nLog.looked /\ nPc = "return"
    /\ nLog.called <= 1

C16_Witness ==
    /\ nPc = "return" /\ nMsg.known
    /\ nLog.validated /\ nLog.looked /\ nLog.called = 1

\* C17: the dispatch only reads what the foreground owns. No step of
\* handleNotification or syncProcessNotification changes the lifecycle state,
\* the tracked linecard (presence, identifier, callback table), the transport
\* client, the identifier virtualizer, or the commands and responses
\* outstanding.
C17_DispatchReadsOnly ==
    [][nPc' # nPc =>
          UNCHANGED <<m_initialized, m_linecard, m_communicationChannel,
                      m_virtualObjectIdManager, cmdQ, respQ, pc>>]_vars

C17_Witness ==
    /\ nPc = "return" /\ nLog.outcome = "invoked"
    /\ m_linecard.present /\ m_linecard.cb = nSn
    /\ \E c \in Callers : pc[c] = "wait" /\ Len(cmdQ) = 1

\* C18: a call that has enqueued its command leaves its wait only by taking a
\* response from the shared path: with no response there it stays blocked,
\* there is no step that gives up or sends again; and with a backend that
\* answers every command, every such call comes to its end.
C18_BlocksUntilResponse ==
    /\ [][\A c \in Callers :
            pc[c] = "wait" /\ pc'[c] # "wait" =>
               /\ pc'[c] = "done"
               /\ respQ # <<>>
               /\ respQ' = Tail(respQ)
               /\ cmdQ' = cmdQ
               /\ gh'[c].enq = 1]_vars
    /\ \A c \in Callers : (pc[c] = "wait") ~> (pc[c] = "done")

C18_Witness ==
    \E c \in Callers :
        /\ Done(c, "clearStats")
        /\ gh[c].enq = 1 /\ gh[c].waits = 1 /\ gh[c].got = "own"
        /\ ret[c] = gh[c].rstatus
        /\ cmdQ = <<>> /\ respQ = <<>>

\* the step of executeCallback that invokes a user callback
C19_Invokes == nPc = "executeCallback" /\ nLog'.called > nLog.called

\* C19 as stated: with the lookup serialized with the foreground calls by the
\* external mutex, every user callback the dispatch invokes runs while a
\* linecard is tracked and with that linecard's current callback table.
C19_Original ==
    [][discipline = "mutex" /\ C19_Invokes =>
          m_linecard.present /\ nSn = m_linecard.cb]_vars

\* C19, amended: with the lookup serialized with the foreground calls by the
\* external mutex, every user callback the dispatch invokes runs with the
\* copy of the callback table that the lookup of this notification took from
\* the linecard tracked at that time; executeCallback runs after the mutex is
\* released and uses the copy unchanged, whatever a remove or set of the root
\* type did to the linecard in between.
C19_Amended ==
    /\ [][discipline = "mutex" /\ nPc = "lookup" /\ nPc' # nPc =>
            /\ \A c \in Callers : pc[c] = "idle"
            /\ nSn' = (IF m_linecard.present THEN m_linecard.cb ELSE NullPtr)
            /\ nLog'.outcome = "noLinecard" <=> ~m_linecard.present]_vars
    /\ [][discipline = "mutex" /\ nPc = "executeCallback" /\ nPc' = nPc =>
            nSn' = nSn /\ nLog' = nLog]_vars
    /\ [][discipline = "mutex" /\ C19_Invokes =>
            /\ nLog.validated /\ nLog.looked /\ nLog.outcome = "none"
            /\ nSn # NullPtr /\ nSn' = nSn]_vars

\* the copy holds a callback, the root remove has succeeded since the lookup,
\* and executeCallback is the next step of the dispatch
C19_Witness ==
    /\ discipline = "mutex"
    /\ nPc = "executeCallback" /\ nLog.looked /\ nSn # NullPtr
    /\ ~m_linecard.present /\ rootRemoved
    /\ \A c \in Callers : pc[c] = "idle"

\* initialize has built the transport client and has not yet set the flag
C20_InWindow == \E c \in Callers : pc[c] \in {"init_clear", "init_vid", "init_flag"}

\* the dispatch is about to read the identifier virtualizer or the linecard
C20_Reads == nPc \in {"linecardIdQuery", "lookup"}

\* C20 as stated: during initialize, between the construction of the
\* transport client and the end of the reset of the local state, the dispatch
\* never reads the identifier virtualizer or the tracked linecard, and it
\* never reads an absent virtualizer.
C20_Original ==
    /\ C20_InWindow => ~C20_Reads
    /\ nPc = "linecardIdQuery" => m_virtualObjectIdManager # "null"

\* C20, amended: when the callers and m_notificationCallback serialize
\* through the external mutex, a notification that arrives during initialize
\* is decoded and then either waits at the mutex until initialize has
\* returned or, with the metadata reference expired, is dropped: the dispatch
\* is nowhere inside syncProcessNotification past the metadata check while
\* the local state is being reset, and it never reads an absent virtualizer.
C20_Amended ==
    discipline = "mutex" =>
       /\ C20_InWindow =>
             /\ nPc \notin SyncPcs
             /\ nPc \in {"executeCallback", "return"} =>
                   nLog.outcome \in {"metaExpired", "unknownName"}
       /\ nPc = "linecardIdQuery" => m_virtualObjectIdManager # "null"

\* a re-initialize with the metadata still live, and a decoded notification
\* waiting at the mutex while the virtualizer is about to be replaced
C20_Witness ==
    /\ discipline = "mutex"
    /\ \E c \in Callers : pc[c] = "init_vid"
    /\ m_meta = "live"
    /\ nPc = "callback" /\ nMsg.known

\* no call is between its entry and its end
C21_NoCallInProgress == \A c \in Callers : pc[c] \in {"idle", "done"}

\* C21: a get or getStats that ends in the fatal error has taken the
\* offending response off the shared path before it ends. With calls that
\* do not overlap, whenever no call is in progress every command enqueued has
\* had its response taken, nothing is left on the path, and the wait of the
\* call that follows a fatal error takes the response to its own command.
C21_FatalKeepsStep ==
    /\ \A c \in Callers :
          pc[c] = "done" /\ ret[c] = Fatal =>
             /\ call[c].op \in {"get", "getStats"}
             /\ gh[c].enq = 1 /\ gh[c].waits = 1 /\ gh[c].got = "own"
    /\ C21_NoCallInProgress =>
          /\ cmdQ = <<>> /\ respQ = <<>>
          /\ \A c \in Callers : gh[c].enq = gh[c].waits
    /\ \A c \in Callers : prevFatal /\ gh[c].waits > 0 => gh[c].got = "own"

\* the call before ended in the fatal error; this one has taken the response
\* to its own command and succeeded
C21_Witness ==
    \E c \in Callers :
        /\ prevFatal
        /\ Done(c, "get")
        /\ gh[c].waits = 1 /\ gh[c].got = "own"
        /\ ret[c] = OTAI_STATUS_SUCCESS /\ gh[c].copied = "values"
        /\ cmdQ = <<>> /\ respQ = <<>>

====
